---- MODULE Spec2Model ----
(***************************************************************************)
(* Model of etl/full_etl.py: the retrying HTTP fetcher (fetch_json,        *)
(* fetch_team_players), the rate-limited batch fetcher (fetch_all_players) *)
(* and the orchestrator (main).  One action per loop iteration or per      *)
(* straight-line block of the code; the remote API, the database driver    *)
(* and the run configuration are inputs drawn from bounded sets.           *)
(***************************************************************************)
EXTENDS Integers, Sequences, FiniteSets, TLC

\* ------------------------------------------------------------------ bounds
MaxTeams == 2        \* longest teams list the API returns
MaxSquad == 2        \* longest squad the API returns
MaxRetries == 2      \* configured retries_per_team is 1..MaxRetries

TeamIds == {1, 2}    \* team ids the API uses
PlayerIds == {1, 2}  \* player ids the API uses

\* ------------------------------------------------------- program constants
DefaultRetries == 3          \* fetch_json(retries=3)
DefaultSeason == 2025        \* fetch_matches(season=2025)
HttpOk == 200                \* resp.status_code == 200
DefaultSleepBetween == 2     \* fetch_json(sleep_between=2)
Minute == 60                 \* sleep_between_calls = 60 / requests_per_min

\* ----------------------------------------------------------------- helpers
Range(s) == {s[k] : k \in 1..Len(s)}

SeqsUpTo(S, n) == UNION {[1..k -> S] : k \in 0..n}

Count(x, s) == Cardinality({k \in 1..Len(s) : s[k] = x})

\* ------------------------------------------------------- the remote API
\* What resp.json() is asked to decode, by what the code does with it.
\*   NoneData  Python's None: the JSON body null (and what fetch_json returns
\*             when no attempt gave a body)
\*   NotJson   text that is not JSON: resp.json() raises JSONDecodeError
\*   TooDeep   JSON nested deeper than the interpreter's recursion limit:
\*             resp.json() raises RecursionError
\*   Falsy     a falsy JSON value that is neither null nor an object:
\*             0, false, "", []
\*   Text      a non-empty string or array that does not hold the list key
\*   Scalar    a non-zero number or true (on text that holds the list key
\*             the code raises one line later, to the same effect)
\*   EmptyObj  the empty object
\*   OtherObj  a non-empty object without the list key
\*   Keyed     an object holding a list of objects under the list key
\*   NullKeyed an object holding null, a number, a boolean or a non-empty
\*             string under the list key
\*   BadRows   an object whose squad list holds a number
NoneData == [tag |-> "None", items |-> <<>>]
NotJson == [tag |-> "not json", items |-> <<>>]
TooDeep == [tag |-> "too deep", items |-> <<>>]
Falsy == [tag |-> "falsy", items |-> <<>>]
Text == [tag |-> "text", items |-> <<>>]
Scalar == [tag |-> "scalar", items |-> <<>>]
EmptyObj == [tag |-> "{}", items |-> <<>>]
OtherObj == [tag |-> "other", items |-> <<>>]
Keyed(items) == [tag |-> "keyed", items |-> items]
NullKeyed == [tag |-> "null", items |-> <<>>]
BadRows == [tag |-> "bad rows", items |-> <<>>]

Bodies(ItemLists) ==
    {NoneData, NotJson, TooDeep, Falsy, Text, Scalar, EmptyObj, OtherObj, NullKeyed}
    \cup {Keyed(l) : l \in ItemLists}

\* Team records: the id, and whether the record has a name.  The records of
\* a list all have a name, or none has (lists of distinct ids in rising
\* order, as in the end-to-end scenario of the specification).
NamedTeamLists ==
    {[k \in 1..Len(l) |-> [id |-> l[k], named |-> TRUE]] : l \in SeqsUpTo(TeamIds, MaxTeams)}
BareTeamLists ==
    {[k \in 1..Len(l) |-> [id |-> l[k], named |-> FALSE]] :
        l \in {m \in SeqsUpTo(TeamIds, MaxTeams) :
                  \A j, k \in 1..Len(m) : j < k => m[j] < m[k]}}
TeamLists == NamedTeamLists \cup BareTeamLists
MatchLists == {<<>>, <<[id |-> 1]>>}

\* The id of a squad record that has no key 'id': pd.json_normalize leaves
\* the id column of its row empty (NaN), and a frame none of whose records
\* has the key has no id column at all.
NoId == -1

\* Squads whose records all carry an id, and the squad of one record that
\* has none (the API's player object without its 'id' key).
IdSquadLists == {[k \in 1..Len(l) |-> [id |-> l[k]]] : l \in SeqsUpTo(PlayerIds, MaxSquad)}
BareSquadLists == {<<[id |-> NoId]>>}
SquadLists == IdSquadLists \cup BareSquadLists

StatusCodes == {200, 429}

\* What one requests.get can produce: a RequestException, a non-200 response
\* (whose body the code never reads) or a 200 response with a body.
Replies(ItemLists) ==
    {[kind |-> "exc", status |-> 0, body |-> NoneData]}
    \cup {[kind |-> "resp", status |-> s, body |-> OtherObj] : s \in StatusCodes \ {200}}
    \cup {[kind |-> "resp", status |-> 200, body |-> b] : b \in Bodies(ItemLists)}

\* GET /v4/teams/{id} can also answer with a squad that holds a number
SquadReplies(ItemLists) ==
    Replies(ItemLists) \cup {[kind |-> "resp", status |-> 200, body |-> BadRows]}


TeamsUrl == [path |-> "competitions/PL/teams", arg |-> 0]
MatchesUrl(season) == [path |-> "competitions/PL/matches?season", arg |-> season]
TeamUrl(team_id) == [path |-> "teams", arg |-> team_id]

\* ------------------------------------------------------ run configuration
\* A string is the sequence of its characters; a character outside ASCII is
\* written by its code point.
KelvinSign == "U+212A"
CapitalIWithDot == "U+0130"
CombiningDotAbove == "U+0307"
CapitalEAcute == "U+00C9"
SmallEAcute == "U+00E9"

\* str.lower() of a one-character string, over the characters of the model's
\* configurations: the ASCII capitals, the Kelvin sign (which becomes the
\* ASCII k), the capital I with dot (which becomes two characters), a
\* capital with a one-character lower case outside ASCII, and characters
\* that have no lower case
LowerChar(c) ==
    CASE c = "A" -> <<"a">>  [] c = "B" -> <<"b">>  [] c = "C" -> <<"c">>
      [] c = "D" -> <<"d">>  [] c = "E" -> <<"e">>  [] c = "F" -> <<"f">>
      [] c = "G" -> <<"g">>  [] c = "H" -> <<"h">>  [] c = "I" -> <<"i">>
      [] c = "J" -> <<"j">>  [] c = "K" -> <<"k">>  [] c = "L" -> <<"l">>
      [] c = "M" -> <<"m">>  [] c = "N" -> <<"n">>  [] c = "O" -> <<"o">>
      [] c = "P" -> <<"p">>  [] c = "Q" -> <<"q">>  [] c = "R" -> <<"r">>
      [] c = "S" -> <<"s">>  [] c = "T" -> <<"t">>  [] c = "U" -> <<"u">>
      [] c = "V" -> <<"v">>  [] c = "W" -> <<"w">>  [] c = "X" -> <<"x">>
      [] c = "Y" -> <<"y">>  [] c = "Z" -> <<"z">>
      [] c = KelvinSign -> <<"k">>
      [] c = CapitalIWithDot -> <<"i", CombiningDotAbove>>
      [] c = CapitalEAcute -> <<SmallEAcute>>
      [] OTHER -> <<c>>

\* str.lower(): the lower cases of the characters, one after the other
RECURSIVE Lower(_)
Lower(str) == IF str = <<>> THEN <<>> ELSE LowerChar(Head(str)) \o Lower(Tail(str))

\* the two names get_db_connection compares the lower-cased type with
DuckDbName == <<"d", "u", "c", "k", "d", "b">>
SnowflakeName == <<"s", "n", "o", "w", "f", "l", "a", "k", "e">>

\* spellings of database.type found in configurations
DuckDbSpellings == <<<<"d", "u", "c", "k", "d", "b">>,
                     <<"D", "U", "C", KelvinSign, "D", "B">>,
                     <<"D", "u", "c", "k", "D", "B">>,
                     <<"D", "U", "C", "K", "D", "B">>>>
SnowflakeSpelling == <<"S", "n", "o", "w", "F", "l", "a", KelvinSign, "e">>
SqliteSpelling == <<"s", "q", "l", "i", "t", "e">>
DottedSpelling == <<"S", "Q", "L", CapitalIWithDot, "T", CapitalEAcute>>

\* the spelling used with retries_per_team = r
SpellingFor(r) == DuckDbSpellings[((r - 1) % Len(DuckDbSpellings)) + 1]

AllKeys == {"api", "etl", "database"}

\* config.yaml as main reads it: the top-level keys present, database.type,
\* the three etl settings, and a season setting
Configs ==
    {[keys |-> AllKeys, db_type |-> SpellingFor(r), requests_per_min |-> q,
      retries_per_team |-> r, sleep_between_retries |-> s, season |-> DefaultSeason] :
        q \in {60}, r \in 1..MaxRetries, s \in {0}}
    \cup
    {[keys |-> AllKeys, db_type |-> SnowflakeSpelling, requests_per_min |-> 7,
      retries_per_team |-> 1, sleep_between_retries |-> 5, season |-> 2024]}
    \cup
    {[keys |-> AllKeys, db_type |-> d, requests_per_min |-> 10,
      retries_per_team |-> 1, sleep_between_retries |-> 0, season |-> DefaultSeason] :
        d \in {SqliteSpelling, DottedSpelling}}
    \cup
    {[keys |-> AllKeys \ {k}, db_type |-> DuckDbName, requests_per_min |-> 10,
      retries_per_team |-> 1, sleep_between_retries |-> 0, season |-> DefaultSeason] :
        k \in AllKeys}

\* the configurations of the runs whose GETs are counted and timed
MeteredConfigs ==
    {[keys |-> AllKeys, db_type |-> SpellingFor(r + 1), requests_per_min |-> q,
      retries_per_team |-> r, sleep_between_retries |-> s, season |-> DefaultSeason] :
        q \in {1, 2}, r \in 1..MaxRetries, s \in {0, 30}}

\* ------------------------------------------------------------ pure parts
\* variant: a loop that runs one iteration more, range(retries + 1)
HasNextAttemptInclusive(made, retries) == made <= retries

\* for attempt in range(retries): is there another iteration after `made`
\* attempts have been made
HasNextAttempt(made, retries) == made < retries

\* variant: fetch_json is handed the configured retries_per_team
JsonRetriesConfigured(cfg) == cfg.retries_per_team

\* fetch_json(url, HEADERS) in fetch_teams and fetch_matches: no retries
\* argument is passed, whatever the configuration says
JsonRetries(cfg) == DefaultRetries

\* variant: a sleep between attempts only, none after the last attempt
SleepsBetweenAttempts(done, made, retries) ==
    IF made < retries THEN done + 1 ELSE done

\* time.sleep(sleep_between), the last statement of the loop body: the number
\* of sleeps done once attempt number `made` of `retries` has failed
SleepsAfterFailure(done, made, retries) == done + 1

\* variant: any response counts as a success, only an exception as a failure
IsSuccessAnyResponse(reply) == reply.kind = "resp"

\* if resp.status_code == 200
IsSuccess(reply) == reply.kind = "resp" /\ reply.status = HttpOk

\* A duration in seconds is an exact fraction num / den in lowest terms
\* (Python computes with floats, which round the same quotients and sums).
RECURSIVE GCD(_, _)
GCD(a, b) == IF b = 0 THEN a ELSE GCD(b, a % b)

Frac(n, d) == LET g == GCD(n, d) IN [num |-> n \div g, den |-> d \div g]

Seconds(n) == Frac(n, 1)

AddFrac(x, y) == Frac(x.num * y.den + y.num * x.den, x.den * y.den)

\* variant: the interval of the default rate of 10 per minute, whatever the
\* configured rate
SleepBetweenCallsDefault(requests_per_min) == Frac(Minute, 10)

\* sleep_between_calls = 60 / requests_per_min, a true division
SleepBetweenCalls(requests_per_min) == Frac(Minute, requests_per_min)

\* the GETs of the last 60 seconds, as ages in seconds, d seconds later
Young(age) == age.num < Minute * age.den
Aged(w, d) == SelectSeq([k \in 1..Len(w) |-> AddFrac(w[k], d)], Young)

\* resp.json() raises requests.exceptions.JSONDecodeError, a
\* RequestException, when the body is not JSON
Parses(reply) == reply.body.tag # NotJson.tag

\* resp.json() raises RecursionError, which is no RequestException and
\* leaves the function, when the body is nested too deep
DecodeRaises(reply) == IsSuccess(reply) /\ reply.body.tag = TooDeep.tag

\* return resp.json() is reached and returns: the attempt ends the sequence
Returns(reply) == IsSuccess(reply) /\ Parses(reply) /\ ~DecodeRaises(reply)

\* What the attempt log keeps of a reply: an HTTP 200 with a JSON body, an
\* HTTP 200 with a body that is not JSON, or neither (another status, or an
\* exception of requests.get)
Seen(reply) ==
    IF reply.kind = "resp" /\ reply.status = 200
    THEN IF Parses(reply) THEN "200" ELSE "200 not json"
    ELSE "failed"

\* if data and "teams" in data
Truthy(data) == data.tag \notin {"None", "falsy", "{}"}
HasKey(data) == data.tag \in {"keyed", "null"}
DataAvailable(data) == Truthy(data) /\ HasKey(data)

\* fetch_teams, fetch_matches: on a truthy value `"teams" in data` raises
\* TypeError when the value is a number (line 107), pd.json_normalize raises
\* when the key holds no list (line 108)
LoadRaises(data) == Truthy(data) /\ data.tag \in {"scalar", "null"}

\* fetch_team_players, lines 142-144: .get raises AttributeError on a value
\* that is no object, the for loop TypeError on a squad that cannot be
\* iterated, the assignment TypeError on a row that is no object
SquadRaises(body) ==
    body.tag \in {"None", "falsy", "text", "scalar", "null", "bad rows"}

\* df_teams[...][['id', 'name']]: is 'name' a column of the frame, that is,
\* has some record a name
HasNameColumn(df) == \E k \in 1..Len(df) : df[k].named

\* drop_duplicates(subset=['id']) looks the column 'id' up: the frame has it
\* when some record has the key
HasIdColumn(df) == \E k \in 1..Len(df) : df[k].id # NoId

\* pd.json_normalize([]) is a frame with no columns; a frame of records has
\* the records' keys as columns (squad rows always have team_id)
HasColumns(df) == df # <<>>

\* pd.json_normalize on a list of flat records: one row per record, in order
JsonNormalize(records) == [k \in 1..Len(records) |-> records[k]]

\* variant: a prerequisite check that never finds the frame empty
IsEmptyNever(df) == Len(df) < 0

\* df.empty
IsEmpty(df) == Len(df) = 0

\* resp.json().get('squad', [])
Squad(body) == IF body.tag = "keyed" THEN body.items ELSE <<>>

\* for player in squad: player['team_id'] = team_id
TagSquad(squad, team_id) ==
    [k \in 1..Len(squad) |-> [id |-> squad[k].id, team_id |-> team_id]]

\* DataFrame.drop_duplicates(subset=['id']), keep='first'; rows whose id is
\* missing count as rows of one id
RECURSIVE DropDuplicatesFrom(_, _)
DropDuplicatesFrom(rows, seen) ==
    IF rows = <<>> THEN <<>>
    ELSE IF Head(rows).id \in seen
         THEN DropDuplicatesFrom(Tail(rows), seen)
         ELSE <<Head(rows)>> \o DropDuplicatesFrom(Tail(rows), seen \cup {Head(rows).id})

\* variant: keep='last', the row that survives is the last of its id
RECURSIVE DropDuplicatesKeepLast(_)
DropDuplicatesKeepLast(rows) ==
    IF rows = <<>> THEN <<>>
    ELSE IF \E k \in 2..Len(rows) : rows[k].id = Head(rows).id
         THEN DropDuplicatesKeepLast(Tail(rows))
         ELSE <<Head(rows)>> \o DropDuplicatesKeepLast(Tail(rows))

DropDuplicates(rows) == DropDuplicatesFrom(rows, {})

\* if players: all_players.extend(players)
ExtendPlayers(all, players) == IF players # <<>> THEN all \o players ELSE all

\* variant: records every identifier as failed, whatever came back
AppendFailedAlways(failed, players, team_id) == Append(failed, team_id)

\* else: failed_teams.append(team_id)
AppendFailed(failed, players, team_id) ==
    IF players # <<>> THEN failed ELSE Append(failed, team_id)

\* ------------------------------------------------------------------ state
VARIABLES
    pc,            \* position in main
    config,        \* the run configuration handed to main
    con,           \* "none", "open" or "closed"
    closeCalls,    \* number of con.close() calls
    outcome,       \* run-level log line: "none", "Done", "Aborted", "Failed"
    raisedAt,      \* where an exception was raised, "none" if nowhere
    closeRaised,   \* con.close() raised (caught in the finally block)
    store,         \* table name -> rows
    writes,        \* tables replaced, in order
    calls,         \* the URL of every fetch sequence started so far, in order
    attempt,       \* attempts made in the running fetch sequence
    results,       \* replies received in the running fetch sequence
    sleeps,        \* retry sleeps done in the running fetch sequence
    slept,         \* seconds slept in those retry sleeps
    ret,           \* the fetch sequence that just returned, until its value is used
    exhausted,     \* the URL of every fetch sequence that used up its attempts
    data,          \* what fetch_json returned to its caller
    returned,      \* what fetch_teams / fetch_matches / fetch_all_players returned
    df_teams,      \* main's df_teams
    i,             \* fetch_all_players: position in df_teams['id'] (1-based)
    all_players,   \* fetch_all_players: all_players
    failed_teams,  \* fetch_all_players: failed_teams
    paceSleeps,    \* fetch_all_players: pacing sleeps done
    paceSlept,     \* fetch_all_players: time slept in pacing sleeps
    df_players,    \* the frame fetch_all_players builds after the loop (line 169)
    metered,       \* whether this run's GETs are counted and timed
    getCount,      \* metered run: requests.get calls so far
    window,        \* metered run: ages at the last player GET of
                   \* the player GETs of the 60 seconds up to and including it
    sinceGet       \* metered run: time slept since the last player GET

vars == <<pc, config, con, closeCalls, outcome, raisedAt, closeRaised, store,
          writes, calls, attempt, results, sleeps, slept, ret, exhausted,
          data, returned, df_teams,
          i, all_players, failed_teams, paceSleeps, paceSlept, df_players,
          metered, getCount, window, sinceGet>>

PriorRows == <<[id |-> 0]>>

NoRet == [kind |-> "none", results |-> <<>>, ok |-> FALSE, retries |-> 0, sleeps |-> 0,
          slept |-> 0]

InitWith(configs, meter) ==
    /\ pc = "start"
    /\ config \in configs
    /\ metered = meter
    /\ getCount = 0
    /\ window = <<>>
    /\ sinceGet = Seconds(0)
    /\ slept = 0
    /\ paceSlept = Seconds(0)
    /\ con = "none"
    /\ closeCalls = 0
    /\ outcome = "none"
    /\ raisedAt = "none"
    /\ closeRaised = FALSE
    /\ store = [teams |-> PriorRows, matches |-> PriorRows, players |-> PriorRows]
    /\ writes = <<>>
    /\ calls = <<>>
    /\ attempt = 0
    /\ results = <<>>
    /\ sleeps = 0
    /\ ret = NoRet
    /\ exhausted = <<>>
    /\ data = NoneData
    /\ returned = [teams |-> "pending", matches |-> "pending", players |-> "pending"]
    /\ df_teams = <<>>
    /\ i = 1
    /\ all_players = <<>>
    /\ failed_teams = <<>>
    /\ paceSleeps = 0
    /\ df_players = <<>>

Init == InitWith(Configs, FALSE)

\* the same program, its GETs counted and timed
InitMetered == InitWith(MeteredConfigs, TRUE)

httpVars == <<calls, attempt, results, sleeps, slept, ret, exhausted, data>>
batchVars == <<i, all_players, failed_teams, paceSleeps, paceSlept, df_players>>
dbVars == <<con, closeCalls, closeRaised, store, writes>>
meterVars == <<metered, getCount, window, sinceGet>>

\* the squads the API answers with; a metered run is about the number and
\* the times of the GETs, and is served squads of at most one player
Served(ItemLists) ==
    IF metered THEN {l \in ItemLists : Len(l) <= 1} ELSE ItemLists

\* requests.get of fetch_json: one more GET
CountGet ==
    /\ getCount' = IF metered THEN getCount + 1 ELSE getCount
    /\ UNCHANGED <<metered, window, sinceGet>>

\* requests.get of fetch_team_players: one more GET, issued sinceGet seconds
\* after the previous player GET and followed by `after` seconds of sleep
\* (responses are taken to arrive at once)
TimeGet(after) ==
    /\ getCount' = IF metered THEN getCount + 1 ELSE getCount
    /\ window' = IF metered THEN Append(Aged(window, sinceGet), Seconds(0)) ELSE window
    /\ sinceGet' = IF metered THEN after ELSE sinceGet
    /\ metered' = metered

\* except Exception as e: logging.error("ETL failed ...")
Fail(where) ==
    /\ raisedAt' = where
    /\ outcome' = "Failed"
    /\ pc' = "finally"

\* main, lines 190-199: resolving the configuration, before the try block
ResolveConfig ==
    /\ pc = "start"
    /\ IF "api" \in config.keys /\ "etl" \in config.keys
       THEN /\ pc' = "connect"
            /\ raisedAt' = raisedAt
       ELSE /\ pc' = "raised"
            /\ raisedAt' = "config"
    /\ UNCHANGED <<config, outcome, returned, df_teams>>
    /\ UNCHANGED httpVars
    /\ UNCHANGED batchVars
    /\ UNCHANGED dbVars
    /\ UNCHANGED meterVars

\* main, lines 201-204 with get_db_connection
Connect ==
    /\ pc = "connect"
    /\ \E driverOk \in BOOLEAN :
         IF /\ "database" \in config.keys
            /\ Lower(config.db_type) \in {DuckDbName, SnowflakeName}
            /\ driverOk
         THEN /\ con' = "open"
              /\ pc' = "teams_get"
              /\ UNCHANGED <<raisedAt, outcome>>
         ELSE /\ con' = con
              /\ Fail("connect")
    /\ UNCHANGED <<config, returned, df_teams, closeCalls, closeRaised, store, writes>>
    /\ UNCHANGED httpVars
    /\ UNCHANGED batchVars
    /\ UNCHANGED meterVars

\* fetch_json: one iteration of the retry loop, and the return that ends it.
\* An error of resp.json() that is no RequestException leaves fetch_json and
\* its caller and reaches main's except block.
FetchJsonAttempt(kind, url, ItemLists) ==
    /\ pc = kind \o "_get"
    /\ \E reply \in Replies(ItemLists) :
         /\ calls' = IF attempt = 0 THEN Append(calls, url) ELSE calls
         /\ IF DecodeRaises(reply)
            THEN /\ attempt' = attempt + 1
                 /\ results' = Append(results, Seen(reply))
                 /\ ret' = NoRet
                 /\ Fail(kind \o "_fetch")
                 /\ returned' = [returned EXCEPT ![kind] = "raised"]
                 /\ UNCHANGED <<sleeps, slept, data, exhausted>>
            ELSE IF Returns(reply)
            THEN /\ data' = reply.body
                 /\ UNCHANGED <<outcome, raisedAt, returned>>
                 /\ ret' = [kind |-> kind, results |-> Append(results, Seen(reply)),
                            ok |-> TRUE, retries |-> JsonRetries(config), sleeps |-> sleeps,
                            slept |-> slept]
                 /\ attempt' = 0
                 /\ results' = <<>>
                 /\ sleeps' = 0
                 /\ slept' = 0
                 /\ exhausted' = exhausted
                 /\ pc' = kind \o "_load"
            ELSE IF HasNextAttempt(attempt + 1, JsonRetries(config))
                 THEN /\ attempt' = attempt + 1
                      /\ results' = Append(results, Seen(reply))
                      /\ sleeps' = SleepsAfterFailure(sleeps, attempt + 1, JsonRetries(config))
                      /\ slept' = slept + DefaultSleepBetween
                      /\ ret' = NoRet
                      /\ UNCHANGED <<data, exhausted, pc>>
                      /\ UNCHANGED <<outcome, raisedAt, returned>>
                 ELSE /\ data' = NoneData
                      /\ UNCHANGED <<outcome, raisedAt, returned>>
                      /\ ret' = [kind |-> kind, results |-> Append(results, Seen(reply)),
                                 ok |-> FALSE, retries |-> JsonRetries(config),
                                 sleeps |-> SleepsAfterFailure(sleeps, attempt + 1,
                                                               JsonRetries(config)),
                                 slept |-> slept + DefaultSleepBetween]
                      /\ attempt' = 0
                      /\ results' = <<>>
                      /\ sleeps' = 0
                      /\ slept' = 0
                      /\ exhausted' = Append(exhausted, url)
                      /\ pc' = kind \o "_load"
    /\ CountGet
    /\ UNCHANGED <<config, df_teams>>
    /\ UNCHANGED batchVars
    /\ UNCHANGED dbVars

FetchTeamsAttempt == FetchJsonAttempt("teams", TeamsUrl, TeamLists)

FetchMatchesAttempt == FetchJsonAttempt("matches", MatchesUrl(DefaultSeason), MatchLists)

\* What the Snowflake server can hold under the name the statement selects
\* from (DF_TEAMS, DF_MATCHES, DF_PLAYERS): here a table of one row.  The
\* server never sees the frame of the program.
ServerObjects(table) ==
    IF table = "teams" THEN {<<[id |-> 2, named |-> TRUE]>>}
    ELSE IF table = "matches" THEN {<<[id |-> 1]>>}
    ELSE {<<[id |-> 2, team_id |-> 2]>>}

\* CREATE OR REPLACE TABLE <table> AS SELECT * FROM <df>, can the statement
\* succeed.  DuckDB reads the frame of that name from the caller's scope and
\* refuses a frame that has no columns; any other frame can be stored, or
\* the statement can raise.  The Snowflake cursor is handed the SQL text
\* only (lines 112, 128, 174): the statement succeeds or raises with the
\* server's object of that name, whatever the frame.
WriteOutcomes(df) ==
    IF Lower(config.db_type) = SnowflakeName THEN BOOLEAN
    ELSE IF HasColumns(df) THEN BOOLEAN ELSE {FALSE}

\* The table after a statement that succeeded: the frame's rows with DuckDB,
\* the rows of the server's object (served) with Snowflake.  A statement
\* that raised leaves the table as it was.
Replace(st, table, rows, served) ==
    IF Lower(config.db_type) = DuckDbName
    THEN [st EXCEPT ![table] = rows]
    ELSE IF Lower(config.db_type) = SnowflakeName
    THEN [st EXCEPT ![table] = served]
    ELSE st

Written(ws, table) ==
    IF Lower(config.db_type) \in {DuckDbName, SnowflakeName}
    THEN Append(ws, table)
    ELSE ws

\* fetch_teams after fetch_json returned (lines 107-117), then main's
\* prerequisite check (lines 207-209); a body the function cannot read
\* raises before anything is written
TeamsLoad ==
    /\ pc = "teams_load"
    /\ IF LoadRaises(data)
       THEN /\ Fail("teams_parse")
            /\ returned' = [returned EXCEPT !.teams = "raised"]
            /\ UNCHANGED <<store, writes, df_teams>>
       ELSE IF DataAvailable(data)
       THEN \E writeOk \in WriteOutcomes(JsonNormalize(data.items)),
               served \in ServerObjects("teams") :
              IF writeOk
              THEN LET df == JsonNormalize(data.items) IN
                   /\ store' = Replace(store, "teams", df, served)
                   /\ writes' = Written(writes, "teams")
                   /\ df_teams' = df
                   /\ returned' = [returned EXCEPT !.teams =
                                      IF Len(df) = 0 THEN "empty" ELSE "rows"]
                   /\ IF IsEmpty(df)
                      THEN /\ outcome' = "Aborted"
                           /\ pc' = "finally"
                      ELSE /\ outcome' = outcome
                           /\ pc' = "matches_get"
                   /\ raisedAt' = raisedAt
              ELSE /\ Fail("teams_write")
                   /\ returned' = [returned EXCEPT !.teams = "raised"]
                   /\ UNCHANGED <<store, writes, df_teams>>
       ELSE /\ df_teams' = <<>>
            /\ returned' = [returned EXCEPT !.teams = "empty"]
            /\ IF IsEmpty(<<>>)
               THEN /\ outcome' = "Aborted"
                    /\ pc' = "finally"
               ELSE /\ outcome' = outcome
                    /\ pc' = "matches_get"
            /\ UNCHANGED <<store, writes, raisedAt>>
    /\ data' = NoneData
    /\ ret' = NoRet
    /\ UNCHANGED <<config, con, closeCalls, closeRaised>>
    /\ UNCHANGED <<calls, attempt, results, sleeps, slept, exhausted>>
    /\ UNCHANGED batchVars
    /\ UNCHANGED meterVars

\* main, line 212: entering fetch_all_players; an empty id column skips the loop
EnterBatch(teams) == IF Len(teams) = 0 THEN "players_load" ELSE "players_get"

\* variant: main returns when the matches frame is empty
AfterMatchesGated(df_matches, teams) ==
    IF Len(df_matches) = 0 THEN "finally" ELSE EnterBatch(teams)

\* main, lines 211-212: df_matches is assigned and never looked at
AfterMatches(df_matches, teams) == EnterBatch(teams)

\* fetch_matches after fetch_json returned (lines 123-133); main goes on to
\* fetch_all_players whatever came back, unless the function raised
MatchesLoad ==
    /\ pc = "matches_load"
    /\ IF LoadRaises(data)
       THEN /\ Fail("matches_parse")
            /\ returned' = [returned EXCEPT !.matches = "raised"]
            /\ UNCHANGED <<store, writes>>
       ELSE IF DataAvailable(data)
       THEN \E writeOk \in WriteOutcomes(JsonNormalize(data.items)),
               served \in ServerObjects("matches") :
              IF writeOk
              THEN LET df == JsonNormalize(data.items) IN
                   /\ store' = Replace(store, "matches", df, served)
                   /\ writes' = Written(writes, "matches")
                   /\ returned' = [returned EXCEPT !.matches =
                                      IF Len(df) = 0 THEN "empty" ELSE "rows"]
                   /\ pc' = AfterMatches(df, df_teams)
                   /\ UNCHANGED <<outcome, raisedAt>>
              ELSE /\ Fail("matches_write")
                   /\ returned' = [returned EXCEPT !.matches = "raised"]
                   /\ UNCHANGED <<store, writes>>
       ELSE /\ returned' = [returned EXCEPT !.matches = "empty"]
            /\ pc' = AfterMatches(<<>>, df_teams)
            /\ UNCHANGED <<store, writes, outcome, raisedAt>>
    /\ data' = NoneData
    /\ ret' = NoRet
    /\ UNCHANGED <<config, df_teams, con, closeCalls, closeRaised>>
    /\ UNCHANGED <<calls, attempt, results, sleeps, slept, exhausted>>
    /\ UNCHANGED batchVars
    /\ UNCHANGED meterVars

\* variant: the identifiers are taken from the end of the list
TeamIdFromEnd(teams, pos) == teams[Len(teams) + 1 - pos].id

\* enumerate(df_teams['id'], start=1): the identifier at position pos
TeamIdAt(teams, pos) == teams[pos].id

\* for i, team_id in enumerate(df_teams['id'], start=1): where the loop goes
\* after the identifier at position pos of n
LoopNext(pos, n) == IF pos + 1 > n THEN "players_load" ELSE "players_get"

\* fetch_all_players, lines 162-167: what follows the return of
\* fetch_team_players for the identifier at position i
AfterTeam(players) ==
    LET team_id == TeamIdAt(df_teams, i) IN
    /\ all_players' = ExtendPlayers(all_players, players)
    /\ failed_teams' = AppendFailed(failed_teams, players, team_id)
    /\ paceSleeps' = paceSleeps + 1
    /\ paceSlept' = AddFrac(paceSlept, SleepBetweenCalls(config.requests_per_min))
    /\ i' = i + 1
    /\ pc' = LoopNext(i, Len(df_teams))

\* fetch_team_players: one iteration of the retry loop for the identifier at
\* position i; when the loop ends, the rest of that identifier's iteration of
\* the loop of fetch_all_players.  A 200 whose body is not JSON is a failed
\* attempt; a 200 whose JSON has no readable squad raises out of the
\* function, of fetch_all_players and into main's except block.
FetchTeamPlayersAttempt ==
    /\ pc = "players_get"
    /\ LET team_id == TeamIdAt(df_teams, i)
           retries == config.retries_per_team
           sleep_between == config.sleep_between_retries
           sleep_between_calls == SleepBetweenCalls(config.requests_per_min)
       IN \E reply \in SquadReplies(Served(SquadLists)) :
            /\ calls' = IF attempt = 0 THEN Append(calls, TeamUrl(team_id)) ELSE calls
            /\ IF DecodeRaises(reply) \/ (Returns(reply) /\ SquadRaises(reply.body))
               THEN /\ attempt' = attempt + 1
                    /\ results' = Append(results, Seen(reply))
                    /\ TimeGet(Seconds(0))
                    /\ Fail("players_fetch")
                    /\ returned' = [returned EXCEPT !.players = "raised"]
                    /\ ret' = NoRet
                    /\ UNCHANGED <<sleeps, slept, exhausted, i, all_players,
                                   failed_teams, paceSleeps, paceSlept>>
               ELSE IF Returns(reply)
               THEN LET squad == TagSquad(Squad(reply.body), team_id) IN
                    /\ UNCHANGED <<outcome, raisedAt, returned>>
                    /\ ret' = [kind |-> "players", results |-> Append(results, Seen(reply)),
                               ok |-> TRUE, retries |-> retries, sleeps |-> sleeps,
                               slept |-> slept]
                    /\ attempt' = 0
                    /\ results' = <<>>
                    /\ sleeps' = 0
                    /\ slept' = 0
                    /\ exhausted' = exhausted
                    /\ TimeGet(sleep_between_calls)
                    /\ AfterTeam(squad)
               ELSE IF HasNextAttempt(attempt + 1, retries)
                    THEN /\ attempt' = attempt + 1
                         /\ results' = Append(results, Seen(reply))
                         /\ sleeps' = SleepsAfterFailure(sleeps, attempt + 1, retries)
                         /\ slept' = slept + sleep_between
                         /\ TimeGet(Seconds(sleep_between))
                         /\ ret' = NoRet
                         /\ UNCHANGED <<exhausted, pc, i, all_players,
                                        failed_teams, paceSleeps, paceSlept>>
                         /\ UNCHANGED <<outcome, raisedAt, returned>>
                    ELSE /\ UNCHANGED <<outcome, raisedAt, returned>>
                         /\ ret' = [kind |-> "players", results |-> Append(results, Seen(reply)),
                                    ok |-> FALSE, retries |-> retries,
                                    sleeps |-> SleepsAfterFailure(sleeps, attempt + 1,
                                                                  retries),
                                    slept |-> slept + sleep_between]
                         /\ attempt' = 0
                         /\ results' = <<>>
                         /\ sleeps' = 0
                         /\ slept' = 0
                         /\ exhausted' = Append(exhausted, TeamUrl(team_id))
                         /\ TimeGet(AddFrac(Seconds(sleep_between), sleep_between_calls))
                         /\ AfterTeam(<<>>)
    /\ UNCHANGED <<config, df_teams, data, df_players>>
    /\ UNCHANGED dbVars

\* fetch_all_players, lines 169-183, then main's line 219.  Line 169 builds
\* the frame and drops duplicates: on rows none of which has an id the
\* lookup of the column raises KeyError (an empty frame is returned as it
\* is).  Lines 171-174 run the write: DuckDB refuses the frame without
\* columns that an empty all_players gives.  Lines 178-181 report the failed
\* identifiers with their names, read from the column 'name' of df_teams; a
\* frame without that column raises KeyError after the players table was
\* replaced.
PlayersLoad ==
    /\ pc = "players_load"
    /\ LET rows == JsonNormalize(all_players) IN
       IF rows # <<>> /\ ~HasIdColumn(rows)
       THEN /\ Fail("players_dedupe")
            /\ returned' = [returned EXCEPT !.players = "raised"]
            /\ UNCHANGED <<store, writes, df_players>>
       ELSE LET df == DropDuplicates(rows) IN
            /\ df_players' = df
            /\ \E writeOk \in WriteOutcomes(df), served \in ServerObjects("players") :
                 IF writeOk
                 THEN /\ store' = Replace(store, "players", df, served)
                      /\ writes' = Written(writes, "players")
                      /\ IF failed_teams # <<>> /\ ~HasNameColumn(df_teams)
                         THEN /\ Fail("players_report")
                              /\ returned' = [returned EXCEPT !.players = "raised"]
                         ELSE /\ returned' = [returned EXCEPT !.players =
                                                 IF Len(df) = 0 THEN "empty" ELSE "rows"]
                              /\ outcome' = "Done"
                              /\ pc' = "finally"
                              /\ raisedAt' = raisedAt
                 ELSE /\ Fail("players_write")
                      /\ returned' = [returned EXCEPT !.players = "raised"]
                      /\ UNCHANGED <<store, writes>>
    /\ UNCHANGED <<config, df_teams, con, closeCalls, closeRaised>>
    /\ UNCHANGED <<i, all_players, failed_teams, paceSleeps, paceSlept>>
    /\ ret' = NoRet
    /\ UNCHANGED <<calls, attempt, results, sleeps, slept, exhausted, data>>
    /\ UNCHANGED meterVars

\* variant: the connection is closed only after a complete run
ShouldCloseWhenDone(c) == c # "none" /\ outcome = "Done"

\* if con is not None
ShouldClose(c) == c # "none"

\* main, lines 224-230: the finally block, then the return
Finally ==
    /\ pc = "finally"
    /\ IF ShouldClose(con)
       THEN /\ con' = "closed"
            /\ closeCalls' = closeCalls + 1
            /\ closeRaised' \in BOOLEAN
       ELSE UNCHANGED <<con, closeCalls, closeRaised>>
    /\ pc' = "returned"
    /\ UNCHANGED <<config, outcome, raisedAt, returned, df_teams, store, writes>>
    /\ UNCHANGED httpVars
    /\ UNCHANGED batchVars
    /\ UNCHANGED meterVars

Next ==
    \/ ResolveConfig
    \/ Connect
    \/ FetchTeamsAttempt
    \/ TeamsLoad
    \/ FetchMatchesAttempt
    \/ MatchesLoad
    \/ FetchTeamPlayersAttempt
    \/ PlayersLoad
    \/ Finally

Spec == Init /\ [][Next]_vars

SpecMetered == InitMetered /\ [][Next]_vars

\* ------------------------------------------------------------ properties
Ids(df) == [k \in 1..Len(df) |-> df[k].id]
Tags(rows) == {rows[k].team_id : k \in 1..Len(rows)}
FailedSet == Range(failed_teams)
AllFalse(rs) == \A k \in 1..Len(rs) : rs[k] = "failed"
NoJson200(rs) == \A k \in 1..Len(rs) : rs[k] # "200"
AnsweredWith(rs, what) == rs # <<>> /\ rs[Len(rs)] = what

\* fetch_team_players raised on the body of a 200
SquadRaised == raisedAt = "players_fetch"

\* a fetch function raised on the body of a 200
FetchRaised == raisedAt \in {"teams_fetch", "matches_fetch", "players_fetch"}

\* fetch_all_players returned to main (it did not raise)
BatchFinished == returned.players \in {"empty", "rows"}

\* main is inside fetch_all_players or past it
BatchEntered == returned.matches \in {"empty", "rows"}

\* no identifier occurs twice in the input list
DistinctIds == \A t \in Range(Ids(df_teams)) : Count(t, Ids(df_teams)) = 1

\* C1 as stated, read over lists of distinct identifiers: when
\* fetch_all_players has finished, every identifier of the input list is
\* either the team_id tag of a returned row or in failed_teams (once), never
\* both and never neither.
C1_Original ==
    (BatchFinished /\ DistinctIds) =>
        \A t \in Range(Ids(df_teams)) :
            /\ (t \in Tags(df_players)) # (t \in FailedSet)
            /\ Count(t, failed_teams) <= 1

\* C1 amended: every identifier processed so far is the team_id tag of a row
\* accumulated before deduplication or is in failed_teams, never neither; one
\* that occurs once in the input list is never both and is recorded as failed
\* at most once.  After deduplication an identifier can be missing from the
\* returned rows without having failed only if each of its rows repeats the
\* player id of an earlier row carrying another tag.
C1_Partition ==
    LET tagged == Tags(all_players)
        failed == FailedSet
        kept == Tags(df_players)
    IN
    /\ \A k \in 1..(i - 1) :
          LET t == df_teams[k].id IN
          /\ t \in tagged \/ t \in failed
          /\ Count(t, Ids(df_teams)) = 1 =>
                /\ ~(t \in tagged /\ t \in failed)
                /\ Count(t, failed_teams) <= 1
    /\ BatchFinished =>
          /\ kept \subseteq tagged
          /\ \A k \in 1..Len(all_players) :
                all_players[k].team_id \notin kept =>
                    \E j \in 1..(k - 1) :
                        /\ all_players[j].id = all_players[k].id
                        /\ all_players[j].team_id # all_players[k].team_id

\* C1 witness: the batch finished over distinct identifiers, and one of
\* them contributed rows, did not fail, and kept no row after deduplication
C1_Witness ==
    /\ BatchFinished
    /\ DistinctIds
    /\ \E t \in Range(Ids(df_teams)) :
          t \notin Tags(df_players) /\ t \notin FailedSet /\ t \in Tags(all_players)

\* the team ids whose fetch sequence used up its attempts
ExhaustedTeams == {u.arg : u \in {v \in Range(exhausted) : v.path = "teams"}}

\* C2 as stated: when the subset F of the identifiers has a failing fetch,
\* fetch_all_players ends with failed_teams equal to F, with rows from exactly
\* the other identifiers, and no identifier answered with HTTP 200 is failed.
C2_FailedIsExactlyF ==
    BatchFinished =>
        /\ FailedSet = ExhaustedTeams
        /\ Tags(all_players) = Range(Ids(df_teams)) \ ExhaustedTeams

\* C3: the batch fetcher never raises.  When identifiers failed (each used up
\* its attempts; no response body made a fetch raise), main still comes back
\* from fetch_all_players with a result: every identifier of the input list
\* had its fetch attempted, in order, and no error left the function.
C3_NeverRaises ==
    (BatchEntered /\ pc = "returned" /\ ExhaustedTeams # {} /\ ~SquadRaised) =>
        /\ SubSeq(calls, 3, Len(calls)) =
              [k \in 1..Len(df_teams) |-> TeamUrl(df_teams[k].id)]
        /\ returned.players \in {"empty", "rows"}

\* C4: a fetch sequence whose every attempt fails makes exactly r GET
\* attempts and then returns the failure value (None from fetch_json, the
\* empty list from fetch_team_players); fewer than r failures never end a
\* sequence, and no sequence makes more than r attempts.  No failed attempt
\* raises: an error leaves a fetch function only on the body of a 200.
C4_ExhaustsAfterR ==
    /\ attempt = Len(results)
    /\ pc \in {"teams_get", "matches_get"} => attempt < DefaultRetries
    /\ pc = "players_get" => attempt < config.retries_per_team
    /\ ret.kind # "none" =>
          /\ Len(ret.results) <= ret.retries
          /\ AllFalse(ret.results) => ~ret.ok
          /\ ~ret.ok => (Len(ret.results) = ret.retries /\ NoJson200(ret.results))
    /\ (pc \in {"teams_load", "matches_load"} /\ ~ret.ok) => data = NoneData
    /\ (ret.kind = "players" /\ ~ret.ok) =>
          /\ failed_teams # <<>>
          /\ failed_teams[Len(failed_teams)] = df_teams[i - 1].id
          /\ exhausted[Len(exhausted)] = TeamUrl(df_teams[i - 1].id)
    /\ FetchRaised => AnsweredWith(results, "200")

\* C4 witness: a fetch_json sequence and a fetch_team_players sequence with a
\* configured retry count above one both returned Exhausted
C4_Witness ==
    /\ ret.kind = "players"
    /\ ~ret.ok
    /\ ret.retries = MaxRetries
    /\ Len(ret.results) = MaxRetries
    /\ \E u \in Range(exhausted) : u.path # "teams"

\* C5 as stated: the sequence ends with the first HTTP 200, which is
\* returned: no attempt follows a 200.
C5_Original ==
    /\ pc \in {"teams_get", "matches_get", "players_get"} => AllFalse(results)
    /\ ret.kind # "none" =>
          AllFalse(SubSeq(ret.results, 1, Len(ret.results) - 1))

\* C5 amended: a fetch sequence whose target first answers HTTP 200 with a
\* JSON body on attempt k makes exactly k GET attempts and returns the parsed
\* body: the attempt log of a returned success is k - 1 attempts without
\* such an answer followed by one with it, and a running sequence holds none
\* (no GET follows one).  A 200 whose body is not JSON is a failed attempt:
\* the sequence goes on.
C5_StopsAtFirstSuccess ==
    /\ \A k \in 1..Len(results) :
          results[k] = "200" => (k = Len(results) /\ FetchRaised)
    /\ (ret.kind # "none" /\ ret.ok) =>
          /\ Len(ret.results) >= 1
          /\ Len(ret.results) <= ret.retries
          /\ AnsweredWith(ret.results, "200")
          /\ NoJson200(SubSeq(ret.results, 1, Len(ret.results) - 1))
    /\ (ret.kind # "none" /\ ~NoJson200(ret.results)) => ret.ok
    /\ pc \in {"teams_load", "matches_load"} =>
          /\ ~ret.ok => data = NoneData
          /\ data \notin {NotJson, TooDeep}

\* C5 witness: fetch_json returned a body on its third attempt, after a 200
\* whose body was not JSON
C5_Witness ==
    /\ pc = "matches_load"
    /\ ret.ok
    /\ Len(ret.results) = DefaultRetries
    /\ ret.results[1] = "200 not json"
    /\ data # NoneData

\* the fetch sequences started inside fetch_all_players
BatchCalls == SubSeq(calls, 3, Len(calls))
AllTeamUrls == [k \in 1..Len(df_teams) |-> TeamUrl(df_teams[k].id)]

\* C6: when fetch_teams returns an empty frame the run ends Aborted, and
\* neither the matches fetch nor any per-team player fetch is invoked.
C6_AbortsWithoutFetching ==
    returned.teams = "empty" =>
        /\ outcome = "Aborted"
        /\ pc \in {"finally", "returned"}
        /\ calls = <<TeamsUrl>>
        /\ returned.matches = "pending"
        /\ returned.players = "pending"
        /\ \A k \in 1..Len(writes) : writes[k] = "teams"

\* C6 witness: the teams fetch used up its attempts, fetch_teams returned an
\* empty frame and main returned
C6_Witness ==
    /\ returned.teams = "empty"
    /\ TeamsUrl \in Range(exhausted)
    /\ outcome = "Aborted"
    /\ pc = "returned"

\* C7: with teams fetched and an empty matches result the run is not
\* aborted: main goes on into fetch_all_players, which starts a fetch for
\* every team identifier (unless the body of a 200 makes a team's fetch
\* raise), and the run ends Done unless fetch_all_players raises.
C7_MatchesFailureDoesNotAbort ==
    (returned.teams = "rows" /\ returned.matches = "empty") =>
        /\ outcome # "Aborted"
        /\ pc \in {"players_get", "players_load", "finally", "returned"}
        /\ (pc # "players_get" /\ ~SquadRaised) => BatchCalls = AllTeamUrls
        /\ pc \in {"finally", "returned"} =>
              \/ outcome = "Done" /\ raisedAt = "none"
              \/ /\ outcome = "Failed"
                 /\ raisedAt \in {"players_fetch", "players_dedupe", "players_write",
                                 "players_report"}

\* C7 witness: the matches fetch used up its attempts and the run over two
\* teams ended Done
C7_Witness ==
    /\ returned.matches = "empty"
    /\ MatchesUrl(DefaultSeason) \in Range(exhausted)
    /\ Len(df_teams) >= 2
    /\ outcome = "Done"
    /\ pc = "returned"

\* C8: a connection that was acquired is closed exactly once, on every exit
\* path, and only when main is done: no close before the last fetch or
\* store write, none at all when no connection was acquired.
C8_ClosedExactlyOnce ==
    /\ closeCalls <= 1
    /\ pc # "returned" => (closeCalls = 0 /\ con # "closed")
    /\ pc \in {"teams_get", "teams_load", "matches_get", "matches_load",
                "players_get", "players_load"} => con = "open"
    /\ pc \in {"start", "connect", "raised"} => con = "none"
    /\ (pc = "returned" /\ raisedAt # "connect") =>
          (con = "closed" /\ closeCalls = 1 /\ outcome \in {"Done", "Aborted", "Failed"})
    /\ (pc = "returned" /\ raisedAt = "connect") =>
          (con = "none" /\ closeCalls = 0 /\ calls = <<>> /\ writes = <<>>)

\* C8 witness: a run that failed at the players write closed its connection
\* once, and the close itself raised
C8_Witness ==
    /\ pc = "returned"
    /\ outcome = "Failed"
    /\ raisedAt = "players_write"
    /\ closeCalls = 1
    /\ closeRaised

\* C9 as stated: no error of the orchestration sequence, the resolution of
\* the configuration values included, propagates out of main.
C9_NothingPropagates == pc # "raised"

\* the run of the end-to-end scenario: teams 1 and 2, the matches fetch and
\* the fetch for team 2 used up their attempts, team 1 answered with two
\* players, and neither the connection nor a store write raised
C10_Scenario ==
    /\ pc = "returned"
    /\ Ids(df_teams) = <<1, 2>>
    /\ exhausted = <<MatchesUrl(DefaultSeason), TeamUrl(2)>>
    /\ Len(all_players) = 2
    /\ all_players[1].id # all_players[2].id
    /\ writes = <<"teams", "players">>

\* C10 as stated: the end-to-end scenario ends Done with 2 team rows, the
\* matches table not written, exactly 2 player rows both tagged team_id = 1,
\* and failed_teams = [2].
C10_EndToEnd ==
    C10_Scenario =>
        /\ outcome = "Done"
        /\ Len(store.teams) = 2
        /\ store.matches = PriorRows
        /\ "matches" \notin Range(writes)
        /\ Len(store.players) = 2
        /\ \A k \in 1..Len(store.players) : store.players[k].team_id = 1
        /\ df_players = store.players
        /\ failed_teams = <<2>>

\* ------------------------------------------------------------------- C11
\* C11: during the batch player fetch, the number of GETs issued in any
\* rolling 60-second window never exceeds requests_per_min, whatever the
\* retry count, the retry delay and the failures.  (window holds the player
\* GETs of the 60 seconds that end with the latest player GET.)
C11_RateLimit ==
    metered => Len(window) <= config.requests_per_min

\* ------------------------------------------------------------------- C12
\* the loop of fetch_all_players has run over the whole list
LoopDone == BatchEntered /\ pc # "players_get" /\ ~SquadRaised

\* C12: one pacing sleep follows the fetch of each identifier, failed or
\* not, before the next identifier starts, the last identifier included: at
\* any moment the pacing sleeps done equal the identifiers completed, and N
\* once the loop over N identifiers is over.  Each lasts 60 / requests_per_min
\* seconds; at 60 requests per minute the pacing sleeps add up to N seconds.
C12_PacingSleeps ==
    /\ paceSleeps = i - 1
    /\ paceSlept.num * config.requests_per_min = paceSleeps * 60 * paceSlept.den
    /\ LoopDone =>
          /\ paceSleeps = Len(df_teams)
          /\ config.requests_per_min = 60 =>
                paceSlept = [num |-> Len(df_teams), den |-> 1]

\* C12 witness: at 60 requests per minute the loop is over for a list of
\* MaxTeams identifiers, the last of which failed, after MaxTeams seconds
\* of pacing sleep
C12_Witness ==
    /\ LoopDone
    /\ config.requests_per_min = 60
    /\ Len(df_teams) = MaxTeams
    /\ failed_teams # <<>>
    /\ failed_teams[Len(failed_teams)] = df_teams[MaxTeams].id
    /\ all_players # <<>>
    /\ paceSlept = [num |-> MaxTeams, den |-> 1]

\* ------------------------------------------------------------------- C13
\* C13: the matches fetch requests the season of the run configuration: the
\* URL fetched for matches carries season = config.season.
C13_ConfiguredSeason ==
    \A k \in 1..Len(calls) :
        calls[k].path = MatchesUrl(0).path => calls[k].arg = config.season

\* ------------------------------------------------------------------- C14
\* C14: when main has ended, the run has exactly one of the outcomes Done,
\* Aborted and Failed; and once a run has its outcome, main only has its
\* finally block left: no fetch and no store write follows.
C14_TerminalOutcome ==
    /\ pc \in {"returned", "raised"} => outcome \in {"Done", "Aborted", "Failed"}
    /\ outcome # "none" => pc \in {"finally", "returned"}

\* ------------------------------------------------------------------- C15
\* C15: when no row was accumulated (every identifier's fetch came back
\* empty), the run still ends Done: fetch_all_players returns an empty row
\* set, the players table is replaced by an empty one and every identifier
\* is reported as failed.
C15_EmptyBatchIsDone ==
    (pc = "returned" /\ BatchEntered /\ all_players = <<>>) =>
        /\ outcome = "Done"
        /\ returned.players = "empty"
        /\ store.players = <<>>
        /\ failed_teams = Ids(df_teams)

\* ------------------------------------------------------------------- C16
\* positions of all_players that hold the first row of their player id
FirstRows == {k \in 1..Len(all_players) :
                 \A j \in 1..(k - 1) : all_players[j].id # all_players[k].id}

\* position of the first occurrence of identifier t in the input list
FirstPos(t) == CHOOSE k \in 1..Len(df_teams) :
                  /\ df_teams[k].id = t
                  /\ \A j \in 1..(k - 1) : df_teams[j].id # t

\* C16: in the rows fetch_all_players returns no two rows share a player id;
\* the rows are the first row of each player id, in accumulation order, so a
\* player returned for several identifiers keeps the team_id of the one
\* processed first; rows are accumulated in the order of the input list.
C16_FirstRowSurvives ==
    /\ (BatchEntered /\ DistinctIds) =>
          \A k \in 2..Len(all_players) :
              FirstPos(all_players[k - 1].team_id) <= FirstPos(all_players[k].team_id)
    /\ BatchFinished =>
          LET first == FirstRows IN
          /\ \A j, k \in 1..Len(df_players) :
                j # k => df_players[j].id # df_players[k].id
          /\ Len(df_players) = Cardinality(first)
          /\ \A k \in first :
                df_players[Cardinality({j \in first : j <= k})] = all_players[k]

\* C16 witness: a player id came back for two identifiers, and two rows
\* survived deduplication
C16_Witness ==
    /\ BatchFinished
    /\ DistinctIds
    /\ Len(df_players) >= 2
    /\ \E j, k \in 1..Len(all_players) :
          /\ j < k
          /\ all_players[j].id = all_players[k].id
          /\ all_players[j].team_id # all_players[k].team_id

\* ------------------------------------------------------------------- C17
\* the retry delay of a fetch sequence: fetch_json's default for the teams
\* and matches fetches, the configured one for a team's players
DelayOf(kind) ==
    IF kind = "players" THEN config.sleep_between_retries ELSE DefaultSleepBetween

\* C17: in a fetch sequence a sleep of the retry delay follows every failed
\* attempt, the last one included, and none follows the successful attempt
\* (nor one whose 200 made the fetch raise):
\* a sequence that succeeds on attempt k has slept k - 1 times, one that used
\* up its r attempts has slept r times.
C17_SleepAfterEveryFailure ==
    /\ sleeps = IF FetchRaised THEN attempt - 1 ELSE attempt
    /\ \A k \in 1..sleeps : results[k] # "200"
    /\ pc = "players_get" => slept = sleeps * DelayOf("players")
    /\ pc \in {"teams_get", "matches_get"} => slept = sleeps * DelayOf("teams")
    /\ ret.kind # "none" =>
          /\ ret.ok => ret.sleeps = Len(ret.results) - 1
          /\ ~ret.ok => ret.sleeps = ret.retries /\ Len(ret.results) = ret.retries
          /\ ret.slept = ret.sleeps * DelayOf(ret.kind)

\* C17 witness: a team's fetch sequence used up MaxRetries attempts and slept
\* MaxRetries times
C17_Witness ==
    /\ ret.kind = "players"
    /\ ~ret.ok
    /\ ret.retries = MaxRetries
    /\ ret.sleeps = MaxRetries

\* ------------------------------------------------------------------- C18
\* the fetch sequences of a complete run, in order
ExpectedCalls == <<TeamsUrl, MatchesUrl(DefaultSeason)>> \o AllTeamUrls

\* a team's fetch sequence has started and not yet returned
TeamFetchRunning == BatchEntered /\ attempt > 0

\* C18: fetch sequences run one after the other in a fixed order: teams,
\* matches, then one per team identifier in the order of the teams result.
\* A sequence starts only after the previous one returned (the sequences
\* started are those completed plus at most the running one), each
\* identifier gets exactly one sequence, and the players table is written
\* at most once, after the last identifier, exactly once when
\* fetch_all_players returns.
C18_SequentialInOrder ==
    /\ Len(calls) <= 2 + Len(df_teams)
    /\ calls = SubSeq(ExpectedCalls, 1, Len(calls))
    /\ BatchEntered =>
          Len(calls) = 2 + (i - 1) + (IF TeamFetchRunning THEN 1 ELSE 0)
    /\ LoopDone => calls = ExpectedCalls
    /\ Count("players", writes) <= 1
    /\ "players" \in Range(writes) =>
          /\ LoopDone
          /\ writes[Len(writes)] = "players"
    /\ BatchFinished => Count("players", writes) = 1

\* C18 witness: a complete run over MaxTeams distinct identifiers, one of
\* whose sequences needed all its attempts, ended with the players write
C18_Witness ==
    /\ pc = "returned"
    /\ outcome = "Done"
    /\ DistinctIds
    /\ Len(df_teams) = MaxTeams
    /\ ExhaustedTeams # {}
    /\ calls = ExpectedCalls
    /\ writes = <<"teams", "matches", "players">>

\* ------------------------------------------------------------------- C19
Loaded(table) == table \in Range(writes)

\* C19: each table holds the rows of its latest successful load: a load of
\* this run replaced the table's rows by the frame loaded, nothing of the
\* earlier rows is left; a table not loaded in this run is as it was.  So a
\* teams or matches fetch that used up its attempts leaves its table as it
\* was, an aborted run leaves the matches and players tables as they were,
\* and a run that failed before the players write was done leaves the
\* players table as it was.
C19_LatestSuccessfulLoad ==
    /\ store.teams = IF Loaded("teams") THEN df_teams ELSE PriorRows
    /\ store.players = IF Loaded("players") THEN df_players ELSE PriorRows
    /\ IF Loaded("matches")
       THEN /\ store.matches \in MatchLists
            /\ (store.matches # <<>>) = (returned.matches = "rows")
       ELSE store.matches = PriorRows
    /\ TeamsUrl \in Range(exhausted) => store.teams = PriorRows
    /\ MatchesUrl(DefaultSeason) \in Range(exhausted) => store.matches = PriorRows
    /\ outcome = "Aborted" =>
          /\ store.matches = PriorRows
          /\ store.players = PriorRows
    /\ (outcome = "Failed" /\ raisedAt # "players_report") => store.players = PriorRows
    /\ raisedAt = "players_report" => store.players = df_players

\* ------------------------------------------------------------------- C20
\* C20: the configured retry count and delay govern the per-team player
\* fetches only.  The teams fetch and the matches fetch make at most 3
\* attempts (exactly 3 when all fail) 2 seconds apart, whatever is
\* configured; a team's fetch makes at most retries_per_team attempts,
\* sleep_between_retries seconds apart.  A run over N teams issues at most
\* 3 + 3 + N * retries_per_team GETs.
C20_GetBudget ==
    /\ metered => getCount <= 3 + 3 + Len(df_teams) * config.retries_per_team
    /\ pc \in {"teams_get", "matches_get"} => attempt < 3
    /\ ret.kind \in {"teams", "matches"} =>
          /\ Len(ret.results) <= 3
          /\ ~ret.ok => Len(ret.results) = 3
          /\ ret.slept = 2 * ret.sleeps
    /\ ret.kind = "players" =>
          /\ Len(ret.results) <= config.retries_per_team
          /\ ret.slept = config.sleep_between_retries * ret.sleeps

\* C20 witness: every fetch of a run over MaxTeams teams used up its
\* attempts, with a configuration that differs from fetch_json's defaults,
\* and the run issued 3 + 3 + MaxTeams * MaxRetries GETs
C20_Witness ==
    /\ metered
    /\ pc = "returned"
    /\ config.retries_per_team = MaxRetries
    /\ config.sleep_between_retries = 30
    /\ Len(df_teams) = MaxTeams
    /\ getCount = 3 + 3 + MaxTeams * MaxRetries

====
